---------------------------- MODULE Spec2Model ----------------------------
(***************************************************************************)
(* DynamicRingBuffer (include/disruptor/dynamic_ring_buffer.h): a single-  *)
(* producer / single-consumer FIFO made of fixed-size blocks chained into  *)
(* a circular list.  The producer thread runs enqueue, the consumer thread *)
(* runs dequeue; every load and store of a field the other thread can see  *)
(* is one step of the model, so that TLC explores every interleaving of    *)
(* the two operations.  Blocks are records of an arena addressed by their  *)
(* index (1, 2, ...), `new Block` appends one.                             *)
(***************************************************************************)
EXTENDS Integers, Sequences, FiniteSets, TLC

\* ------------------------------------------------------------- bounds ---
\* Largest block size a queue is constructed with (1 .. MaxRequestedSize).
MaxRequestedSize == 2
\* Number of enqueue calls the producer makes in one run.
MaxEnq == 7

\* ---------------------------------------------------------- constants ---
\* Sequence's initial value: one below the first valid position.
INITIAL_CURSOR_VALUE == -1

\* The payloads passed to enqueue.  T is opaque to the queue, which copies an
\* event and never inspects it: the k-th call passes the event k, so that
\* every event is told from every other one.
Events == 1 .. MaxEnq
\* Content of a slot of `new T[size_]` that was never assigned.
Uninit == 0
\* The value of a block pointer that was never assigned.
NoBlock == 0
\* The monitor's copy of num_blocks_ before it has read it (num_blocks_ is
\* never below 1).
NotRead == 0
\* Calls of available_approx() the monitor thread makes.
MaxCalls == 1
\* Enqueue calls the producer makes while a monitor thread runs.
MonMaxEnq == 3

VARIABLES
    \* DynamicRingBuffer
    buffer_size_,       \* const int buffer_size_
    num_blocks_,        \* size_t num_blocks_
    front_block_,       \* atomic<Block*> front_block_
    tail_block_,        \* atomic<Block*> tail_block_
    \* Block, one entry per allocated block
    tail_,              \* Sequence tail_
    head_,              \* Sequence head_
    next_,              \* atomic<Block*> next_
    events_,            \* scoped_array<T> events_ : slot index -> payload
    \* the producer thread, inside enqueue
    ppc, p_event, p_tail, p_block_tail, p_block_head, p_tail_block_next,
    p_new_block, p_steps,
    \* the consumer thread, inside dequeue
    cpc, c_tail_block_at_start, c_head, c_block_head, c_block_tail,
    c_next_block, c_event, c_result,
    \* the assertions of lines 140 and 190
    reuse_assert_failed, advance_assert_failed,
    \* history
    enq_seq,            \* events passed to enqueue, in call order
    enq_done,           \* number of enqueue calls that returned
    deq_seq,            \* events returned by successful dequeues, in order
    c_seen_enq,         \* enq_done when the running/last dequeue read tail_block_
    peak,               \* most events ever outstanding: enqueue calls made
                        \* minus successful dequeues, at its largest
    \* a monitor thread, inside available_approx() and occupied_approx()
    mpc, m_num_blocks, m_block, m_head, m_tail, m_result, m_available,
    m_calls,            \* number of calls the monitor has started
    m_ring,             \* the ring when the running/last walk started
    m_visited           \* the blocks the running/last walk has summed, in order

shared == <<buffer_size_, num_blocks_, front_block_, tail_block_,
            tail_, head_, next_, events_>>
plocals == <<ppc, p_event, p_tail, p_block_tail, p_block_head,
             p_tail_block_next, p_new_block, p_steps>>
clocals == <<cpc, c_tail_block_at_start, c_head, c_block_head, c_block_tail,
             c_next_block, c_event, c_result>>
asserts == <<reuse_assert_failed, advance_assert_failed>>
history == <<enq_seq, enq_done, deq_seq, c_seen_enq, peak>>
mon == <<mpc, m_num_blocks, m_block, m_head, m_tail, m_result, m_available,
         m_calls, m_ring, m_visited>>
vars == <<shared, plocals, clocals, asserts, history, mon>>

\* ------------------------------------------------------------ helpers ---
RECURSIVE Pow2AtLeast(_, _)
Pow2AtLeast(p, n) == IF p >= n THEN p ELSE Pow2AtLeast(2 * p, n)

\* ceilToPow2: the smallest power of two that is >= n.
ceilToPow2(n) == Pow2AtLeast(1, n)

\* Bitwise and of two naturals.
RECURSIVE BitAnd(_, _)
BitAnd(a, b) ==
    IF a = 0 \/ b = 0 THEN 0
    ELSE (a % 2) * (b % 2) + 2 * BitAnd(a \div 2, b \div 2)

\* Block::mask
mask == buffer_size_ - 1

\* The slot Block::get / Block::set address: events_[sequence & mask()].
SlotOf(sequence) == BitAnd(sequence, mask)

\* Block::empty
empty(b) == tail_[b] = head_[b]

\* Mutant of hasAvailableCapacity: the + 1 is lost, so a full block still
\* reports a free slot.
hasAvailableCapacity_NoPlusOne(b) == (tail_[b] - buffer_size_) <= head_[b]

\* Mutant of hasAvailableCapacity: <= became <, so the last free slot of a
\* block is never used.
hasAvailableCapacity_Strict(b) == (tail_[b] + 1 - buffer_size_) < head_[b]

\* Block::hasAvailableCapacity
hasAvailableCapacity(b) == (tail_[b] + 1 - buffer_size_) <= head_[b]

\* What a read of a slot can give: the stored payload, or anything at all
\* when the slot was never written.
SlotRead(b, sequence) ==
    LET v == events_[b][SlotOf(sequence)]
    IN  IF v = Uninit THEN Events \cup {Uninit} ELSE {v}

\* Block::Block(size): the record `new Block(buffer_size_)` creates.
NewSlots == [i \in 0 .. (buffer_size_ - 1) |-> Uninit]

\* ---------------------------------------------------------------- Init ---
\* DynamicRingBuffer::DynamicRingBuffer: one block that is its own successor.
Init ==
    /\ buffer_size_ \in {ceilToPow2(n) : n \in 1 .. MaxRequestedSize}
    /\ num_blocks_ = 1
    /\ tail_ = <<INITIAL_CURSOR_VALUE>>
    /\ head_ = <<INITIAL_CURSOR_VALUE>>
    /\ next_ = <<1>>
    /\ events_ = <<NewSlots>>
    /\ tail_block_ = 1
    /\ front_block_ = 1
    /\ ppc = "idle" /\ p_event = Uninit /\ p_tail = NoBlock
    /\ p_block_tail = 0 /\ p_block_head = 0 /\ p_tail_block_next = NoBlock
    /\ p_new_block = NoBlock /\ p_steps = 0
    /\ cpc = "idle" /\ c_tail_block_at_start = NoBlock /\ c_head = NoBlock
    /\ c_block_head = 0 /\ c_block_tail = 0 /\ c_next_block = NoBlock
    /\ c_event = Uninit /\ c_result = "none"
    /\ reuse_assert_failed = FALSE /\ advance_assert_failed = FALSE
    /\ enq_seq = <<>> /\ enq_done = 0 /\ deq_seq = <<>> /\ c_seen_enq = 0
    /\ peak = 0
    /\ mpc = "idle" /\ m_num_blocks = NotRead /\ m_block = NoBlock
    /\ m_head = 0 /\ m_tail = 0 /\ m_result = 0 /\ m_available = 0
    /\ m_calls = 0 /\ m_ring = {} /\ m_visited = <<>>

\* ------------------------------------------------------ introspection ---
\* The allocated blocks.
Blocks == 1 .. Len(tail_)

\* The blocks one gets to from the blocks of S by following next_.
RECURSIVE Closure(_)
Closure(S) ==
    LET T == S \cup ({next_[b] : b \in S} \ {NoBlock})
    IN  IF T = S THEN S ELSE Closure(T)

\* The block ring: the blocks reachable from front_block_.
Ring == Closure({front_block_})

\* The blocks reachable from b in one or more steps.
After(b) == IF next_[b] = NoBlock THEN {} ELSE Closure({next_[b]})

RECURSIVE Sum(_, _)
Sum(f, S) ==
    IF S = {} THEN 0
    ELSE LET x == CHOOSE y \in S : TRUE IN f[x] + Sum(f, S \ {x})

\* The loop of occupied_approx(), run without any other thread moving:
\* do { result += tail - head; block = block->next_; } while (block != front_block_).
\* size_t arithmetic is exact modulo 2^64: the model keeps the mathematical
\* value.  The fuel stops a walk that would never come back (-1).
RECURSIVE OccupiedWalk(_, _, _)
OccupiedWalk(block, result, fuel) ==
    LET sum == result + (tail_[block] - head_[block])
        nxt == next_[block]
    IN  IF nxt = front_block_ THEN sum
        ELSE IF fuel = 0 \/ nxt = NoBlock THEN -1
        ELSE OccupiedWalk(nxt, sum, fuel - 1)

\* DynamicRingBuffer::occupied_approx
occupied_approx == OccupiedWalk(front_block_, 0, Len(tail_))

\* Mutant of available_approx: the capacity of one block instead of all.
available_approx_OneBlock == buffer_size_ - occupied_approx

\* DynamicRingBuffer::available_approx
available_approx == buffer_size_ * num_blocks_ - occupied_approx

\* DynamicRingBuffer::num_blocks
num_blocks == num_blocks_

\* DynamicRingBuffer::has_available_capacity
has_available_capacity == available_approx > 0

\* The events a block holds, oldest first: positions head + 1 .. tail.
BlockContents(b) ==
    [i \in 1 .. (tail_[b] - head_[b]) |-> events_[b][SlotOf(head_[b] + i)]]

\* The events the queue holds, oldest first: the blocks from front_block_
\* to tail_block_ in next_ order.
RECURSIVE ContentsFrom(_, _)
ContentsFrom(b, fuel) ==
    IF b = tail_block_ \/ fuel = 0 \/ next_[b] = NoBlock THEN BlockContents(b)
    ELSE BlockContents(b) \o ContentsFrom(next_[b], fuel - 1)

Contents == ContentsFrom(front_block_, Len(tail_))

IsPrefix(s, t) == Len(s) <= Len(t) /\ \A i \in 1 .. Len(s) : s[i] = t[i]

\* No enqueue and no dequeue is in progress.
Quiescent == ppc = "idle" /\ cpc = "idle"

\* ------------------------------------------------- enqueue (producer) ---
\* Leaving enqueue: its locals go out of scope.
PReturn ==
    /\ ppc' = "idle"
    /\ p_event' = Uninit /\ p_tail' = NoBlock /\ p_block_tail' = 0
    /\ p_block_head' = 0 /\ p_tail_block_next' = NoBlock
    /\ p_new_block' = NoBlock /\ p_steps' = 0
    /\ enq_done' = enq_done + 1

PStep(to) == ppc' = to /\ p_steps' = p_steps + 1

\* enqueue(event) is called; line 120: tail = tail_block_.load()
P_LoadTailBlock ==
    /\ ppc = "idle"
    /\ Len(enq_seq) < MaxEnq
    /\ \E e \in Events :
          /\ e = Len(enq_seq) + 1
          /\ p_event' = e
          /\ enq_seq' = Append(enq_seq, e)
          /\ peak' = IF Len(enq_seq) + 1 - Len(deq_seq) > peak
                     THEN Len(enq_seq) + 1 - Len(deq_seq) ELSE peak
    /\ p_tail' = tail_block_
    /\ PStep("p_load_block_tail")
    /\ UNCHANGED <<mon, shared, clocals, asserts, enq_done, deq_seq, c_seen_enq,
                   p_block_tail, p_block_head, p_tail_block_next, p_new_block>>

\* line 121: block_tail = tail->tail_.get()
P_LoadBlockTail ==
    /\ ppc = "p_load_block_tail"
    /\ p_block_tail' = tail_[p_tail]
    /\ PStep("p_check_capacity")
    /\ UNCHANGED <<mon, shared, clocals, asserts, history,
                   p_event, p_tail, p_block_head, p_tail_block_next, p_new_block>>

\* Mutant of P_CheckCapacity: the test is negated.
P_CheckCapacity_Negated ==
    /\ ppc = "p_check_capacity"
    /\ PStep(IF ~hasAvailableCapacity(p_tail) THEN "p_set" ELSE "p_check_next")
    /\ UNCHANGED <<mon, shared, clocals, asserts, history,
                   p_event, p_tail, p_block_tail, p_block_head,
                   p_tail_block_next, p_new_block>>

\* line 124: if (tail->hasAvailableCapacity())
P_CheckCapacity ==
    /\ ppc = "p_check_capacity"
    /\ PStep(IF hasAvailableCapacity(p_tail) THEN "p_set" ELSE "p_check_next")
    /\ UNCHANGED <<mon, shared, clocals, asserts, history,
                   p_event, p_tail, p_block_tail, p_block_head,
                   p_tail_block_next, p_new_block>>

\* line 126: tail->set(block_tail + 1, event)
P_Set ==
    /\ ppc = "p_set"
    /\ events_' = [events_ EXCEPT ![p_tail][SlotOf(p_block_tail + 1)] = p_event]
    /\ PStep("p_advance_tail")
    /\ UNCHANGED <<mon, buffer_size_, num_blocks_, front_block_, tail_block_,
                   tail_, head_, next_, clocals, asserts, history,
                   p_event, p_tail, p_block_tail, p_block_head,
                   p_tail_block_next, p_new_block>>

\* line 127: tail->advanceTail(); enqueue returns
P_AdvanceTail ==
    /\ ppc = "p_advance_tail"
    /\ tail_' = [tail_ EXCEPT ![p_tail] = @ + 1]
    /\ PReturn
    /\ UNCHANGED <<mon, buffer_size_, num_blocks_, front_block_, tail_block_,
                   head_, next_, events_, clocals, asserts,
                   enq_seq, deq_seq, c_seen_enq, peak>>

\* Mutant of P_CheckNext: a bounded queue, which waits for the consumer to
\* free a block instead of growing.
P_CheckNext_Wait ==
    /\ ppc = "p_check_next"
    /\ next_[p_tail] # front_block_
    /\ PStep("p_reuse_load_next")
    /\ UNCHANGED <<mon, shared, clocals, asserts, history,
                   p_event, p_tail, p_block_tail, p_block_head,
                   p_tail_block_next, p_new_block>>

\* Mutant of P_CheckNext: the next block is compared with tail_block_ instead
\* of front_block_.
P_CheckNext_VsTail ==
    /\ ppc = "p_check_next"
    /\ PStep(IF next_[p_tail] # tail_block_ THEN "p_reuse_load_next"
                                            ELSE "p_new_block")
    /\ UNCHANGED <<mon, shared, clocals, asserts, history,
                   p_event, p_tail, p_block_tail, p_block_head,
                   p_tail_block_next, p_new_block>>

\* Mutant of P_CheckNext: != became ==, so the branches are swapped.
P_CheckNext_Inverted ==
    /\ ppc = "p_check_next"
    /\ PStep(IF next_[p_tail] = front_block_ THEN "p_reuse_load_next"
                                             ELSE "p_new_block")
    /\ UNCHANGED <<mon, shared, clocals, asserts, history,
                   p_event, p_tail, p_block_tail, p_block_head,
                   p_tail_block_next, p_new_block>>

\* lines 131-132: if (tail->next_.load() != front_block_.load())
P_CheckNext ==
    /\ ppc = "p_check_next"
    /\ PStep(IF next_[p_tail] # front_block_ THEN "p_reuse_load_next"
                                             ELSE "p_new_block")
    /\ UNCHANGED <<mon, shared, clocals, asserts, history,
                   p_event, p_tail, p_block_tail, p_block_head,
                   p_tail_block_next, p_new_block>>

\* line 135: tail_block_next = tail->next_.load()
P_ReuseLoadNext ==
    /\ ppc = "p_reuse_load_next"
    /\ p_tail_block_next' = next_[p_tail]
    /\ PStep("p_reuse_load_head")
    /\ UNCHANGED <<mon, shared, clocals, asserts, history,
                   p_event, p_tail, p_block_tail, p_block_head, p_new_block>>

\* line 136: block_head = tail_block_next->head_.get()
P_ReuseLoadHead ==
    /\ ppc = "p_reuse_load_head"
    /\ p_block_head' = head_[p_tail_block_next]
    /\ PStep("p_reuse_load_tail")
    /\ UNCHANGED <<mon, shared, clocals, asserts, history,
                   p_event, p_tail, p_block_tail, p_tail_block_next, p_new_block>>

\* line 137: block_tail = tail_block_next->tail_.get();
\* line 140: assert(block_tail == block_head)
P_ReuseLoadTail ==
    /\ ppc = "p_reuse_load_tail"
    /\ p_block_tail' = tail_[p_tail_block_next]
    /\ reuse_assert_failed' =
          (reuse_assert_failed \/ tail_[p_tail_block_next] # p_block_head)
    /\ PStep("p_reuse_set")
    /\ UNCHANGED <<mon, shared, clocals, advance_assert_failed, history,
                   p_event, p_tail, p_block_head, p_tail_block_next, p_new_block>>

\* line 142: tail_block_next->set(block_tail + 1, event)
P_ReuseSet ==
    /\ ppc = "p_reuse_set"
    /\ events_' = [events_ EXCEPT
                     ![p_tail_block_next][SlotOf(p_block_tail + 1)] = p_event]
    /\ PStep("p_reuse_advance_tail")
    /\ UNCHANGED <<mon, buffer_size_, num_blocks_, front_block_, tail_block_,
                   tail_, head_, next_, clocals, asserts, history,
                   p_event, p_tail, p_block_tail, p_block_head,
                   p_tail_block_next, p_new_block>>

\* Mutant of P_ReuseAdvanceTail: the reused block's tail is not advanced
\* before the block is published.
P_ReuseAdvanceTail_Skip ==
    /\ ppc = "p_reuse_advance_tail"
    /\ PStep("p_reuse_publish")
    /\ UNCHANGED <<mon, shared, clocals, asserts, history,
                   p_event, p_tail, p_block_tail, p_block_head,
                   p_tail_block_next, p_new_block>>

\* line 143: tail_block_next->advanceTail()
P_ReuseAdvanceTail ==
    /\ ppc = "p_reuse_advance_tail"
    /\ tail_' = [tail_ EXCEPT ![p_tail_block_next] = @ + 1]
    /\ PStep("p_reuse_publish")
    /\ UNCHANGED <<mon, buffer_size_, num_blocks_, front_block_, tail_block_,
                   head_, next_, events_, clocals, asserts, history,
                   p_event, p_tail, p_block_tail, p_block_head,
                   p_tail_block_next, p_new_block>>

\* Mutant of P_ReusePublish: a reused block is counted as a new one.
P_ReusePublish_Counts ==
    /\ ppc = "p_reuse_publish"
    /\ tail_block_' = p_tail_block_next
    /\ num_blocks_' = num_blocks_ + 1
    /\ PReturn
    /\ UNCHANGED <<mon, buffer_size_, front_block_,
                   tail_, head_, next_, events_, clocals, asserts,
                   enq_seq, deq_seq, c_seen_enq, peak>>

\* line 146: tail_block_ = tail_block_next; enqueue returns
P_ReusePublish ==
    /\ ppc = "p_reuse_publish"
    /\ tail_block_' = p_tail_block_next
    /\ PReturn
    /\ UNCHANGED <<mon, buffer_size_, num_blocks_, front_block_,
                   tail_, head_, next_, events_, clocals, asserts,
                   enq_seq, deq_seq, c_seen_enq, peak>>

\* lines 150-151: new_block = new Block(buffer_size_);
\*                block_tail = new_block->tail_.get()
\* The new block's next_ is not initialised by Block::Block.
P_NewBlock ==
    /\ ppc = "p_new_block"
    /\ p_new_block' = Len(tail_) + 1
    /\ tail_' = Append(tail_, INITIAL_CURSOR_VALUE)
    /\ head_' = Append(head_, INITIAL_CURSOR_VALUE)
    /\ next_' = Append(next_, NoBlock)
    /\ events_' = Append(events_, NewSlots)
    /\ p_block_tail' = INITIAL_CURSOR_VALUE
    /\ PStep("p_grow_set")
    /\ UNCHANGED <<mon, buffer_size_, num_blocks_, front_block_, tail_block_,
                   clocals, asserts, history,
                   p_event, p_tail, p_block_head, p_tail_block_next>>

\* line 152: new_block->set(block_tail + 1, event)
P_GrowSet ==
    /\ ppc = "p_grow_set"
    /\ events_' = [events_ EXCEPT
                     ![p_new_block][SlotOf(p_block_tail + 1)] = p_event]
    /\ PStep("p_grow_advance_tail")
    /\ UNCHANGED <<mon, buffer_size_, num_blocks_, front_block_, tail_block_,
                   tail_, head_, next_, clocals, asserts, history,
                   p_event, p_tail, p_block_tail, p_block_head,
                   p_tail_block_next, p_new_block>>

\* Mutant of P_GrowAdvanceTail: the new block's tail is not advanced.
P_GrowAdvanceTail_Skip ==
    /\ ppc = "p_grow_advance_tail"
    /\ PStep("p_grow_link_new")
    /\ UNCHANGED <<mon, shared, clocals, asserts, history,
                   p_event, p_tail, p_block_tail, p_block_head,
                   p_tail_block_next, p_new_block>>

\* line 153: new_block->advanceTail()
P_GrowAdvanceTail ==
    /\ ppc = "p_grow_advance_tail"
    /\ tail_' = [tail_ EXCEPT ![p_new_block] = @ + 1]
    /\ PStep("p_grow_link_new")
    /\ UNCHANGED <<mon, buffer_size_, num_blocks_, front_block_, tail_block_,
                   head_, next_, events_, clocals, asserts, history,
                   p_event, p_tail, p_block_tail, p_block_head,
                   p_tail_block_next, p_new_block>>

\* Mutant of P_GrowLinkNew: the new block is linked back to the old tail block
\* instead of to the old tail block's successor.
P_GrowLinkNew_ToTail ==
    /\ ppc = "p_grow_link_new"
    /\ next_' = [next_ EXCEPT ![p_new_block] = p_tail]
    /\ PStep("p_grow_link_tail")
    /\ UNCHANGED <<mon, buffer_size_, num_blocks_, front_block_, tail_block_,
                   tail_, head_, events_, clocals, asserts, history,
                   p_event, p_tail, p_block_tail, p_block_head,
                   p_tail_block_next, p_new_block>>

\* line 155: new_block->next_ = tail->next_.load()
P_GrowLinkNew ==
    /\ ppc = "p_grow_link_new"
    /\ next_' = [next_ EXCEPT ![p_new_block] = next_[p_tail]]
    /\ PStep("p_grow_link_tail")
    /\ UNCHANGED <<mon, buffer_size_, num_blocks_, front_block_, tail_block_,
                   tail_, head_, events_, clocals, asserts, history,
                   p_event, p_tail, p_block_tail, p_block_head,
                   p_tail_block_next, p_new_block>>

\* line 156: tail->next_ = new_block
P_GrowLinkTail ==
    /\ ppc = "p_grow_link_tail"
    /\ next_' = [next_ EXCEPT ![p_tail] = p_new_block]
    /\ PStep("p_grow_publish")
    /\ UNCHANGED <<mon, buffer_size_, num_blocks_, front_block_, tail_block_,
                   tail_, head_, events_, clocals, asserts, history,
                   p_event, p_tail, p_block_tail, p_block_head,
                   p_tail_block_next, p_new_block>>

\* line 159: tail_block_ = new_block
P_GrowPublish ==
    /\ ppc = "p_grow_publish"
    /\ tail_block_' = p_new_block
    /\ PStep("p_grow_count")
    /\ UNCHANGED <<mon, buffer_size_, num_blocks_, front_block_,
                   tail_, head_, next_, events_, clocals, asserts, history,
                   p_event, p_tail, p_block_tail, p_block_head,
                   p_tail_block_next, p_new_block>>

\* Mutant of P_GrowCount: the block count is not incremented.
P_GrowCount_NoIncrement ==
    /\ ppc = "p_grow_count"
    /\ PReturn
    /\ UNCHANGED <<mon, shared, clocals, asserts,
                   enq_seq, deq_seq, c_seen_enq, peak>>

\* line 160: ++num_blocks_; enqueue returns
P_GrowCount ==
    /\ ppc = "p_grow_count"
    /\ num_blocks_' = num_blocks_ + 1
    /\ PReturn
    /\ UNCHANGED <<mon, buffer_size_, front_block_, tail_block_,
                   tail_, head_, next_, events_, clocals, asserts,
                   enq_seq, deq_seq, c_seen_enq, peak>>

\* The steps of enqueue after its first.
ProducerRest ==
    \/ P_LoadBlockTail \/ P_CheckCapacity
    \/ P_Set \/ P_AdvanceTail \/ P_CheckNext
    \/ P_ReuseLoadNext \/ P_ReuseLoadHead \/ P_ReuseLoadTail
    \/ P_ReuseSet \/ P_ReuseAdvanceTail \/ P_ReusePublish
    \/ P_NewBlock \/ P_GrowSet \/ P_GrowAdvanceTail
    \/ P_GrowLinkNew \/ P_GrowLinkTail \/ P_GrowPublish \/ P_GrowCount

\* One step of the producer thread.
Producer == P_LoadTailBlock \/ ProducerRest

\* ------------------------------------------------- dequeue (consumer) ---
\* Leaving dequeue with `result`: its locals go out of scope; the caller
\* keeps the output parameter and the returned flag.
CReturn(result) ==
    /\ cpc' = "idle"
    /\ c_result' = result
    /\ c_tail_block_at_start' = NoBlock /\ c_head' = NoBlock
    /\ c_block_head' = 0 /\ c_block_tail' = 0 /\ c_next_block' = NoBlock

\* dequeue(event) is called; line 171: tail_block_at_start = tail_block_.load()
C_LoadTailBlock ==
    /\ cpc = "idle"
    /\ c_tail_block_at_start' = tail_block_
    /\ c_seen_enq' = enq_done
    /\ c_result' = "none"
    /\ cpc' = "c_load_front"
    /\ UNCHANGED <<mon, shared, plocals, asserts, enq_seq, enq_done, deq_seq, peak,
                   c_head, c_block_head, c_block_tail, c_next_block, c_event>>

\* line 174: head = front_block_.load()
C_LoadFront ==
    /\ cpc = "c_load_front"
    /\ c_head' = front_block_
    /\ cpc' = "c_load_block_head"
    /\ UNCHANGED <<mon, shared, plocals, asserts, history, c_tail_block_at_start,
                   c_block_head, c_block_tail, c_next_block, c_event, c_result>>

\* Mutant of C_LoadBlockHead: block_head is taken one too far, so the slot
\* after the oldest event is read.
C_LoadBlockHead_PlusOne ==
    /\ cpc = "c_load_block_head"
    /\ c_block_head' = head_[c_head] + 1
    /\ cpc' = "c_check_empty"
    /\ UNCHANGED <<mon, shared, plocals, asserts, history, c_tail_block_at_start,
                   c_head, c_block_tail, c_next_block, c_event, c_result>>

\* line 175: block_head = head->head_.get()
C_LoadBlockHead ==
    /\ cpc = "c_load_block_head"
    /\ c_block_head' = head_[c_head]
    /\ cpc' = "c_check_empty"
    /\ UNCHANGED <<mon, shared, plocals, asserts, history, c_tail_block_at_start,
                   c_head, c_block_tail, c_next_block, c_event, c_result>>

\* Mutant of C_CheckEmpty: an empty front block is reported as an empty
\* queue without looking at tail_block_at_start.
C_CheckEmpty_NoAdvance ==
    /\ cpc = "c_check_empty"
    /\ cpc' = IF ~empty(c_head) THEN "c_get" ELSE "c_return_false"
    /\ UNCHANGED <<mon, shared, plocals, asserts, history, c_tail_block_at_start,
                   c_head, c_block_head, c_block_tail, c_next_block,
                   c_event, c_result>>

\* Mutant of C_CheckEmpty: an empty front block is always left for the next
\* one, whether or not the producer has got past it.
C_CheckEmpty_AlwaysAdvance ==
    /\ cpc = "c_check_empty"
    /\ cpc' = IF ~empty(c_head) THEN "c_get" ELSE "c_load_next"
    /\ UNCHANGED <<mon, shared, plocals, asserts, history, c_tail_block_at_start,
                   c_head, c_block_head, c_block_tail, c_next_block,
                   c_event, c_result>>

\* line 178: if (!head->empty()) ... line 183: else if (head != tail_block_at_start)
C_CheckEmpty ==
    /\ cpc = "c_check_empty"
    /\ cpc' = IF ~empty(c_head) THEN "c_get"
              ELSE IF c_head # c_tail_block_at_start THEN "c_load_next"
              ELSE "c_return_false"
    /\ UNCHANGED <<mon, shared, plocals, asserts, history, c_tail_block_at_start,
                   c_head, c_block_head, c_block_tail, c_next_block,
                   c_event, c_result>>

\* line 180: event = head->get(block_head + 1)
C_Get ==
    /\ cpc = "c_get"
    /\ c_event' \in SlotRead(c_head, c_block_head + 1)
    /\ cpc' = "c_advance_head"
    /\ UNCHANGED <<mon, shared, plocals, asserts, history, c_tail_block_at_start,
                   c_head, c_block_head, c_block_tail, c_next_block, c_result>>

\* line 181: head->advanceHead(); line 203: return true
C_AdvanceHead ==
    /\ cpc = "c_advance_head"
    /\ head_' = [head_ EXCEPT ![c_head] = @ + 1]
    /\ deq_seq' = Append(deq_seq, c_event)
    /\ CReturn("true")
    /\ UNCHANGED <<mon, buffer_size_, num_blocks_, front_block_, tail_block_,
                   tail_, next_, events_, plocals, asserts,
                   enq_seq, enq_done, c_seen_enq, peak, c_event>>

\* line 185: next_block = head->next_
C_LoadNext ==
    /\ cpc = "c_load_next"
    /\ c_next_block' = next_[c_head]
    /\ cpc' = "c_load_next_head"
    /\ UNCHANGED <<mon, shared, plocals, asserts, history, c_tail_block_at_start,
                   c_head, c_block_head, c_block_tail, c_event, c_result>>

\* Mutant of C_LoadNextHead: the inner block_head is not loaded, the outer
\* one (the head of the drained block) is used for the next block.
C_LoadNextHead_Stale ==
    /\ cpc = "c_load_next_head"
    /\ cpc' = "c_load_next_tail"
    /\ UNCHANGED <<mon, shared, plocals, asserts, history, c_tail_block_at_start,
                   c_head, c_block_head, c_block_tail, c_next_block,
                   c_event, c_result>>

\* line 187: block_head = next_block->head_.get()
C_LoadNextHead ==
    /\ cpc = "c_load_next_head"
    /\ c_block_head' = head_[c_next_block]
    /\ cpc' = "c_load_next_tail"
    /\ UNCHANGED <<mon, shared, plocals, asserts, history, c_tail_block_at_start,
                   c_head, c_block_tail, c_next_block, c_event, c_result>>

\* line 188: block_tail = next_block->tail_.get();
\* line 190: assert(block_head != block_tail)
C_LoadNextTail ==
    /\ cpc = "c_load_next_tail"
    /\ c_block_tail' = tail_[c_next_block]
    /\ advance_assert_failed' =
          (advance_assert_failed \/ c_block_head = tail_[c_next_block])
    /\ cpc' = "c_publish_front"
    /\ UNCHANGED <<mon, shared, plocals, reuse_assert_failed, history,
                   c_tail_block_at_start, c_head, c_block_head, c_next_block,
                   c_event, c_result>>

\* line 193: head = front_block_ = next_block
C_PublishFront ==
    /\ cpc = "c_publish_front"
    /\ front_block_' = c_next_block
    /\ c_head' = c_next_block
    /\ cpc' = "c_next_get"
    /\ UNCHANGED <<mon, buffer_size_, num_blocks_, tail_block_, tail_, head_, next_,
                   events_, plocals, asserts, history, c_tail_block_at_start,
                   c_block_head, c_block_tail, c_next_block, c_event, c_result>>

\* line 195: event = head->get(block_head + 1)
C_NextGet ==
    /\ cpc = "c_next_get"
    /\ c_event' \in SlotRead(c_head, c_block_head + 1)
    /\ cpc' = "c_next_advance_head"
    /\ UNCHANGED <<mon, shared, plocals, asserts, history, c_tail_block_at_start,
                   c_head, c_block_head, c_block_tail, c_next_block, c_result>>

\* line 196: head->advanceHead(); line 203: return true
C_NextAdvanceHead ==
    /\ cpc = "c_next_advance_head"
    /\ head_' = [head_ EXCEPT ![c_head] = @ + 1]
    /\ deq_seq' = Append(deq_seq, c_event)
    /\ CReturn("true")
    /\ UNCHANGED <<mon, buffer_size_, num_blocks_, front_block_, tail_block_,
                   tail_, next_, events_, plocals, asserts,
                   enq_seq, enq_done, c_seen_enq, peak, c_event>>

\* Mutant of C_ReturnFalse: the output parameter is cleared on failure.
C_ReturnFalse_ClearsEvent ==
    /\ cpc = "c_return_false"
    /\ c_event' = Uninit
    /\ CReturn("false")
    /\ UNCHANGED <<mon, shared, plocals, asserts, history>>

\* line 200: return false
C_ReturnFalse ==
    /\ cpc = "c_return_false"
    /\ CReturn("false")
    /\ UNCHANGED <<mon, shared, plocals, asserts, history, c_event>>

\* One step of the consumer thread.
Consumer ==
    \/ C_LoadTailBlock \/ C_LoadFront \/ C_LoadBlockHead \/ C_CheckEmpty
    \/ C_Get \/ C_AdvanceHead
    \/ C_LoadNext \/ C_LoadNextHead \/ C_LoadNextTail \/ C_PublishFront
    \/ C_NextGet \/ C_NextAdvanceHead \/ C_ReturnFalse

\* ------------------------------------------------------------- monitor ---
\* A third thread calls available_approx() (lines 221-224), which calls
\* occupied_approx() (lines 206-219), while the producer and the consumer
\* run.  One action per load.  The operands of the subtraction of line 223
\* are evaluated in either order, so num_blocks_ is read before the walk or
\* after it.
MStep(to) == mpc' = to

\* line 223: num_blocks_ is read before occupied_approx() is called.
M_LoadNumBlocksFirst ==
    /\ mpc = "idle"
    /\ m_calls < MaxCalls
    /\ m_calls' = m_calls + 1
    /\ m_num_blocks' = num_blocks_
    /\ MStep("m_load_front")
    /\ UNCHANGED <<shared, plocals, clocals, asserts, history,
                   m_block, m_head, m_tail, m_result, m_available,
                   m_ring, m_visited>>

\* lines 208-210: result = 0; head_block = front_block_.load(); block = head_block
M_LoadFront ==
    /\ \/ /\ mpc = "idle"
          /\ m_calls < MaxCalls
          /\ m_calls' = m_calls + 1
          /\ m_num_blocks' = NotRead
       \/ /\ mpc = "m_load_front"
          /\ UNCHANGED <<m_calls, m_num_blocks>>
    /\ m_result' = 0
    /\ m_block' = front_block_
    /\ m_ring' = Ring
    /\ m_visited' = <<>>
    /\ MStep("m_load_head")
    /\ UNCHANGED <<shared, plocals, clocals, asserts, history,
                   m_head, m_tail, m_available>>

\* line 212: size_t head = block->head_.get()
M_LoadHead ==
    /\ mpc = "m_load_head"
    /\ m_head' = head_[m_block]
    /\ MStep("m_load_tail")
    /\ UNCHANGED <<shared, plocals, clocals, asserts, history,
                   m_num_blocks, m_block, m_tail, m_result, m_available,
                   m_calls, m_ring, m_visited>>

\* line 213: size_t tail = block->tail_.get()
M_LoadTail ==
    /\ mpc = "m_load_tail"
    /\ m_tail' = tail_[m_block]
    /\ MStep("m_load_next")
    /\ UNCHANGED <<shared, plocals, clocals, asserts, history,
                   m_num_blocks, m_block, m_head, m_result, m_available,
                   m_calls, m_ring, m_visited>>

\* lines 214-215: block = block->next_.load(); result += tail - head
M_LoadNext ==
    /\ mpc = "m_load_next"
    /\ m_visited' = Append(m_visited, m_block)
    /\ m_block' = next_[m_block]
    /\ m_result' = m_result + (m_tail - m_head)
    /\ MStep("m_check")
    /\ UNCHANGED <<shared, plocals, clocals, asserts, history,
                   m_num_blocks, m_head, m_tail, m_available,
                   m_calls, m_ring>>

\* line 216: while (block != front_block_), front_block_ loaded again
M_Check ==
    /\ mpc = "m_check"
    /\ MStep(IF m_block # front_block_ THEN "m_load_head" ELSE "m_walk_done")
    /\ UNCHANGED <<shared, plocals, clocals, asserts, history,
                   m_num_blocks, m_block, m_head, m_tail, m_result,
                   m_available, m_calls, m_ring, m_visited>>

\* lines 218 and 223: return result; then
\* return buffer_size_ * num_blocks_ - occupied, with num_blocks_ read now
\* unless it was read before the walk.  The value is kept as an integer:
\* a negative one stands for the size_t it wraps to.
M_Return ==
    /\ mpc = "m_walk_done"
    /\ LET n == IF m_num_blocks = NotRead THEN num_blocks_ ELSE m_num_blocks
       IN  /\ m_num_blocks' = n
           /\ m_available' = buffer_size_ * n - m_result
    /\ MStep("idle")
    /\ UNCHANGED <<shared, plocals, clocals, asserts, history,
                   m_block, m_head, m_tail, m_result, m_calls, m_ring,
                   m_visited>>

\* One step of the monitor thread.
Monitor ==
    \/ M_LoadNumBlocksFirst \/ M_LoadFront \/ M_LoadHead \/ M_LoadTail
    \/ M_LoadNext \/ M_Check \/ M_Return

\* ---------------------------------------------------------------- Spec ---
Next == Producer \/ Consumer

Spec == Init /\ [][Next]_vars

\* The producer, the consumer and a monitor thread.
NextMon ==
    \/ Len(enq_seq) < MonMaxEnq /\ P_LoadTailBlock
    \/ ProducerRest
    \/ Consumer
    \/ Monitor

SpecMon == Init /\ [][NextMon]_vars

\* The consumer keeps calling dequeue and keeps taking steps; nothing is
\* assumed of the producer.
SpecFair == Spec /\ WF_vars(Consumer)

\* ============================================================== claims ===

\* C1 (FIFO): the events returned by the successful dequeue calls are, in
\* order, a prefix of the events passed to enqueue: none is reordered,
\* skipped, duplicated or invented, in every interleaving of the steps of
\* the producer and of the consumer.
C1_Fifo == IsPrefix(deq_seq, enq_seq)

\* Events were taken, in order, out of a ring that has grown and whose first
\* block has been written a second time, while both threads are mid-call.
C1_Witness ==
    /\ num_blocks_ >= 2
    /\ tail_[1] >= buffer_size_
    /\ Len(deq_seq) > buffer_size_
    /\ ppc # "idle" /\ cpc # "idle"

\* C2 (dequeue fails only on an empty queue): a dequeue that returned false
\* read tail_block_ at a moment when every event of every completed enqueue
\* had already been dequeued; so a dequeue that starts while such an event is
\* still in the queue returns true.  (The consumer may by then also have
\* taken the event of an enqueue that has advanced tail and not yet returned,
\* so the dequeued events can outnumber the completed enqueues.)
C2_FailsOnlyWhenEmpty ==
    c_result = "false" =>
        /\ c_seen_enq <= Len(deq_seq)
        /\ \A i \in 1 .. c_seen_enq : deq_seq[i] = enq_seq[i]

\* A dequeue has failed on a queue that had held events in several blocks,
\* and the producer has completed further enqueues since it started.
C2_Witness ==
    /\ c_result = "false"
    /\ num_blocks_ >= 2
    /\ Len(deq_seq) >= 2
    /\ enq_done > c_seen_enq

\* The program points of the longest path through enqueue, the growth branch.
EnqueueLongestPath ==
    {"p_load_block_tail", "p_check_capacity", "p_check_next", "p_new_block",
     "p_grow_set", "p_grow_advance_tail", "p_grow_link_new",
     "p_grow_link_tail", "p_grow_publish", "p_grow_count"}

\* C3 (enqueue never fails and never blocks): in every state in which an
\* enqueue is in progress the producer has a step it can take, whatever the
\* consumer has done or will do, and it has taken no more steps than the
\* growth branch is long; and once the enqueue has returned its event is
\* stored: the dequeued events followed by the events the ring holds are
\* exactly the events passed to enqueue.
C3_EnqueueNeverBlocks ==
    /\ ppc # "idle" =>
          /\ ENABLED Producer
          /\ p_steps <= Cardinality(EnqueueLongestPath)
          /\ IsPrefix(deq_seq \o Contents, enq_seq)
          /\ Len(deq_seq) + Len(Contents) >= Len(enq_seq) - 1
    /\ ppc = "idle" =>
          /\ enq_done = Len(enq_seq)
          /\ deq_seq \o Contents = enq_seq

\* The consumer has never run, every slot of every block was occupied twice
\* over, and the enqueues that found it so have returned with their events
\* stored.
C3_Witness ==
    /\ ppc = "idle" /\ cpc = "idle" /\ c_result = "none"
    /\ num_blocks_ = 3
    /\ enq_done = 2 * buffer_size_ + 1
    /\ Contents = enq_seq

\* C4 (occupancy conservation): when no enqueue and no dequeue is in
\* progress, tail - head summed over the blocks of the ring is the number of
\* completed enqueues minus the number of successful dequeues, and
\* occupied_approx() returns that number.
C4_OccupancyConservation ==
    Quiescent =>
        /\ Sum([b \in Ring |-> tail_[b] - head_[b]], Ring)
              = enq_done - Len(deq_seq)
        /\ occupied_approx = enq_done - Len(deq_seq)

\* A quiescent ring of three blocks that holds events and has delivered some.
C4_Witness ==
    /\ Quiescent
    /\ Cardinality(Ring) >= 3
    /\ Len(deq_seq) >= 2
    /\ occupied_approx >= 2

\* C5 (growth on overflow): k >= 1 enqueues with no dequeue in between make
\* num_blocks() equal ceil(k / buffer_size), so buffer_size + 1 of them make
\* it 2; and the dequeues that follow succeed as long as a completed enqueue
\* is left, each returning the event at its position in enqueue order.
C5_GrowthOnOverflow ==
    /\ (ppc = "idle" /\ enq_done >= 1 /\ Len(deq_seq) = 0) =>
          num_blocks = (enq_done + buffer_size_ - 1) \div buffer_size_
    /\ c_result = "true" =>
          /\ Len(deq_seq) <= Len(enq_seq)
          /\ c_event = enq_seq[Len(deq_seq)]
    /\ c_result = "false" => Len(deq_seq) >= c_seen_enq

\* buffer_size + 1 events were enqueued, the ring has two blocks, and the
\* (buffer_size + 1)-th dequeue has returned the last of them.
C5_Witness ==
    /\ Quiescent
    /\ enq_done = buffer_size_ + 1
    /\ num_blocks = 2
    /\ c_result = "true"
    /\ Len(deq_seq) = buffer_size_ + 1
    /\ c_event = buffer_size_ + 1

\* A step of the fast path of enqueue: the store into the slot, the advance
\* of tail.
FastPathStep == ppc \in {"p_set", "p_advance_tail"} /\ ppc' # ppc

\* C6 (reuse instead of reallocation): as long as no more than buffer_size
\* events were ever outstanding (fill, drain, fill again, any number of
\* times) the queue keeps its one block; and an enqueue that finds a free
\* slot in the tail block changes neither num_blocks_ nor tail_block_ nor any
\* next_ pointer.
C6_ReuseKeepsOneBlock ==
    [][ /\ peak' <= buffer_size_ =>
              (num_blocks_' = 1 /\ tail_block_' = 1 /\ next_' = <<1>>)
        /\ FastPathStep => UNCHANGED <<num_blocks_, tail_block_, next_>>
      ]_vars

\* The one block was filled and drained three times over and is still alone.
C6_Witness ==
    /\ Quiescent
    /\ peak <= buffer_size_
    /\ enq_done >= 3 * buffer_size_
    /\ Len(deq_seq) = enq_done
    /\ num_blocks = 1

\* A step of a dequeue on its way to `return false`: the loads of lines
\* 171-175, the tests of lines 178 and 183 when both fail, the return.
FailPathStep ==
    \/ cpc \in {"idle", "c_load_front", "c_load_block_head"} /\ cpc' # cpc
    \/ cpc = "c_check_empty" /\ cpc' = "c_return_false"
    \/ cpc = "c_return_false" /\ cpc' # cpc

\* C7 (an empty dequeue is a pure failure): no step of a dequeue that returns
\* false writes the output parameter, front_block_, tail_block_, num_blocks_
\* or any block's head, tail, next or slots.
C7_EmptyDequeuePure ==
    [][ FailPathStep =>
          UNCHANGED <<c_event, front_block_, tail_block_, num_blocks_,
                      head_, tail_, next_, events_>>
      ]_vars

\* A dequeue has returned false and the caller's variable still holds the
\* event of the last successful dequeue.
C7_Witness ==
    /\ cpc = "idle" /\ c_result = "false"
    /\ Len(deq_seq) >= 1
    /\ c_event = deq_seq[Len(deq_seq)]

\* C8 (free-capacity introspection): available_approx() is buffer_size right
\* after construction and buffer_size - 1 after one enqueue; when no
\* operation is in progress it is buffer_size * num_blocks() minus the
\* completed enqueues not yet dequeued; and has_available_capacity() is true
\* exactly when available_approx() > 0, which is when some block of the ring
\* has a free slot.
C8_FreeCapacity ==
    /\ enq_seq = <<>> => available_approx = buffer_size_
    /\ (ppc = "idle" /\ enq_done = 1 /\ Len(deq_seq) = 0) =>
          available_approx = buffer_size_ - 1
    /\ Quiescent =>
          /\ available_approx
                = buffer_size_ * num_blocks - (enq_done - Len(deq_seq))
          /\ has_available_capacity <=> available_approx > 0
          /\ has_available_capacity <=>
                \E b \in Ring : tail_[b] - head_[b] < buffer_size_

\* A quiescent queue of several blocks with no free slot, and one with some.
C8_Witness ==
    /\ Quiescent
    /\ num_blocks >= 2
    /\ Len(deq_seq) >= 1
    /\ available_approx > 0
    /\ available_approx < buffer_size_ * num_blocks

\* C9 (per-block occupancy bound): in every state, mid-operation ones
\* included, every block has 0 <= tail - head <= size.
C9_BlockOccupancyBound ==
    \A b \in Blocks :
        /\ 0 <= tail_[b] - head_[b]
        /\ tail_[b] - head_[b] <= buffer_size_

\* A block that has wrapped is full while an enqueue and a dequeue are both
\* in progress, and another block is empty.
C9_Witness ==
    /\ ppc # "idle" /\ cpc # "idle"
    /\ \E b \in Blocks :
          tail_[b] - head_[b] = buffer_size_ /\ head_[b] > INITIAL_CURSOR_VALUE
    /\ \E b \in Blocks : tail_[b] = head_[b]

\* C10 (ring closure): in every state, the states between the two stores of
\* the splice included, the ring has at least one block, following next_
\* from any block of the ring leads back to that block, and front_block_ and
\* tail_block_ are blocks of the ring.
C10_RingClosed ==
    /\ Ring # {}
    /\ \A b \in Ring : b \in After(b)
    /\ front_block_ \in Ring
    /\ tail_block_ \in Ring

\* The producer stands between the two stores of a splice into a ring of at
\* least two blocks.
C10_Witness ==
    /\ ppc = "p_grow_link_tail"
    /\ Cardinality(Ring) >= 2
    /\ next_[p_new_block] = next_[p_tail]

\* C11 (the block count is monotonic): num_blocks_ never decreases; it
\* changes only in the last statement of the growth branch of enqueue, by
\* exactly 1; no block ever leaves the ring; and whenever no enqueue is in
\* progress num_blocks() is the number of distinct blocks of the ring.
C11_BlockCountMonotonic ==
    [][ /\ num_blocks_' >= num_blocks_
        /\ num_blocks_' # num_blocks_ =>
              (ppc = "p_grow_count" /\ num_blocks_' = num_blocks_ + 1)
        /\ Ring \subseteq Ring'
        /\ ppc' = "idle" => num_blocks_' = Cardinality(Ring')
      ]_vars

\* The ring has grown twice and a block of it has been reused since.
C11_Witness ==
    /\ ppc = "idle"
    /\ num_blocks = 3 /\ Cardinality(Ring) = 3
    /\ \E b \in Blocks : tail_[b] - INITIAL_CURSOR_VALUE > buffer_size_

\* The blocks from b to tail_block_ in next_ order, both included; the
\* empty set when tail_block_ is not met.
RECURSIVE BlocksToTail(_, _)
BlocksToTail(b, fuel) ==
    IF b = tail_block_ THEN {b}
    ELSE IF fuel = 0 \/ next_[b] = NoBlock THEN {}
    ELSE LET rest == BlocksToTail(next_[b], fuel - 1)
         IN  IF rest = {} THEN {} ELSE {b} \cup rest

\* The blocks that hold what was produced and not yet consumed: from
\* front_block_ to tail_block_.
Segment == BlocksToTail(front_block_, Len(tail_))

\* The blocks strictly between front_block_ and tail_block_.
Between == Segment \ {front_block_, tail_block_}

\* The idle blocks: strictly after tail_block_ and strictly before front_block_.
Idle == Ring \ Segment

\* The block the producer has written its event into and advanced the tail
\* of, and not yet published as tail_block_ (lines 143-146 and 156-159).
Unpublished ==
    IF ppc = "p_reuse_publish" THEN {p_tail_block_next}
    ELSE IF ppc = "p_grow_publish" THEN {p_new_block}
    ELSE {}

\* C12 as claimed: in every state tail_block_ is reached from front_block_,
\* every idle block has head = tail, every block strictly between
\* front_block_ and tail_block_ is full, and front_block_ never moves on from
\* the block that is tail_block_.
C12_Original ==
    [][ /\ Segment' # {}
        /\ \A b \in Idle' : head_'[b] = tail_'[b]
        /\ \A b \in Between' : tail_'[b] - head_'[b] = buffer_size_'
        /\ front_block_' # front_block_ => front_block_ # tail_block_
      ]_vars

\* C12 (the consumer never gets ahead of the producer), amended: as claimed,
\* except that the one block the producer has already written and not yet
\* published as tail_block_ is an idle block that holds one event.
C12_ConsumerBehindProducer ==
    [][ /\ Segment' # {}
        /\ \A b \in Idle' \ Unpublished' : head_'[b] = tail_'[b]
        /\ \A b \in Idle' \cap Unpublished' : tail_'[b] = head_'[b] + 1
        /\ \A b \in Between' : tail_'[b] - head_'[b] = buffer_size_'
        /\ front_block_' # front_block_ => front_block_ # tail_block_
      ]_vars

\* A ring with a full block between front_block_ and tail_block_, an idle
\* block behind them, and a consumer that has just moved front_block_ on.
C12_Witness ==
    /\ Between # {}
    /\ Idle # {}
    /\ cpc = "c_next_get"

\* C13 (the reuse assertion never fails): whenever enqueue finds its tail
\* block full and tail->next_ different from front_block_, the block
\* tail->next_ has head = tail when the producer reads them, so
\* assert(block_tail == block_head) of line 140 holds; and the slot the
\* producer then writes holds no unconsumed event.
C13_ReuseAssertHolds ==
    /\ ~reuse_assert_failed
    /\ ppc \in {"p_reuse_load_head", "p_reuse_load_tail", "p_reuse_set"} =>
          head_[p_tail_block_next] = tail_[p_tail_block_next]

\* The producer has passed the assertion, on a block that was filled and
\* drained before, while a dequeue is in progress.
C13_Witness ==
    /\ ppc = "p_reuse_set"
    /\ p_block_tail = p_block_head
    /\ p_block_tail > INITIAL_CURSOR_VALUE
    /\ cpc # "idle"

\* C14 (the advance assertion never fails): whenever dequeue finds its front
\* block empty and different from the tail_block_ it read at its start, the
\* block front->next_ is not empty when the consumer reads its head and tail,
\* so assert(block_head != block_tail) of line 190 holds.
C14_AdvanceAssertHolds ==
    /\ ~advance_assert_failed
    /\ cpc \in {"c_load_next_head", "c_load_next_tail", "c_publish_front"} =>
          head_[c_next_block] # tail_[c_next_block]

\* The consumer has passed the assertion on a block that the producer has
\* reused, while an enqueue is in progress.
C14_Witness ==
    /\ cpc = "c_publish_front"
    /\ c_block_head # c_block_tail
    /\ c_block_head > INITIAL_CURSOR_VALUE
    /\ ppc # "idle"

\* The slots of block b that hold an event not yet consumed.
OccupiedSlots(b) == {SlotOf(i) : i \in (head_[b] + 1) .. tail_[b]}

\* The block and the slot the producer is about to write, if it stands
\* before one of its three payload stores (lines 126, 142, 152).
ProducerTarget ==
    IF ppc = "p_set" THEN {<<p_tail, SlotOf(p_block_tail + 1)>>}
    ELSE IF ppc = "p_reuse_set"
         THEN {<<p_tail_block_next, SlotOf(p_block_tail + 1)>>}
    ELSE IF ppc = "p_grow_set" THEN {<<p_new_block, SlotOf(p_block_tail + 1)>>}
    ELSE {}

\* The block and the position the consumer is about to read, if it stands
\* before one of its two payload loads (lines 180, 195).
ConsumerTarget ==
    IF cpc \in {"c_get", "c_next_get"} THEN {<<c_head, c_block_head + 1>>}
    ELSE {}

\* C15 (slot exclusivity): the producer never writes a slot that holds an
\* event the consumer has not yet read and released by advancing head; the
\* consumer never reads a slot before the tail advance that follows its
\* write, so what it reads is a written event; and the two never stand before
\* the same slot at once.
C15_SlotExclusivity ==
    /\ \A t \in ProducerTarget : t[2] \notin OccupiedSlots(t[1])
    /\ \A t \in ConsumerTarget :
          /\ t[2] = head_[t[1]] + 1
          /\ t[2] <= tail_[t[1]]
          /\ events_[t[1]][SlotOf(t[2])] # Uninit
    /\ \A p \in ProducerTarget : \A c \in ConsumerTarget :
          ~(p[1] = c[1] /\ p[2] = SlotOf(c[2]))

\* The producer is about to overwrite a slot of a block that has wrapped
\* while the consumer is about to read another slot of the same block.
C15_Witness ==
    /\ ppc = "p_set" /\ cpc = "c_get"
    /\ p_tail = c_head
    /\ p_block_tail >= buffer_size_ - 1
    /\ buffer_size_ > 1

\* C16 (growth condition): an enqueue allocates a block if and only if it
\* found no free slot in the tail block (line 124) and then found tail->next_
\* equal to front_block_ (lines 131-132); nothing else allocates.  The new
\* block is spliced right after the old tail block (its next_ is the old
\* tail's next_, the old tail's next_ is the new block), and when it is
\* published as tail_block_ it holds exactly the enqueued event.
C16_GrowthCondition ==
    [][ /\ Len(tail_') # Len(tail_) =>
              (ppc = "p_new_block" /\ Len(tail_') = Len(tail_) + 1)
        /\ (ppc' = "p_new_block" /\ ppc' # ppc) => ppc = "p_check_next"
        /\ (ppc = "p_check_capacity" /\ ppc' # ppc) =>
              (ppc' = "p_check_next" <=> ~hasAvailableCapacity(p_tail))
        /\ (ppc = "p_check_next" /\ ppc' # ppc) =>
              (ppc' = "p_new_block" <=> next_[p_tail] = front_block_)
        /\ (ppc = "p_grow_link_tail" /\ ppc' # ppc) =>
              /\ next_'[p_new_block] = next_[p_tail]
              /\ next_'[p_tail] = p_new_block
        /\ (ppc = "p_grow_publish" /\ ppc' # ppc) =>
              /\ tail_block_ = p_tail
              /\ tail_block_' = p_new_block
              /\ next_[p_tail] = p_new_block
              /\ BlockContents(p_new_block) = <<p_event>>
      ]_vars

\* A third block has been spliced in between the tail block and the front
\* block of a ring of two, and published.
C16_Witness ==
    /\ ppc = "p_grow_count"
    /\ Len(tail_) = 3
    /\ tail_block_ = p_new_block
    /\ next_[p_tail] = p_new_block
    /\ next_[p_new_block] # p_tail

\* The step in which enqueue decides to grow: the comparison of lines
\* 131-132 finds tail->next_ equal to front_block_.
GrowthDecided == ppc = "p_check_next" /\ ppc' = "p_new_block"

\* C17 as claimed: an enqueue grows the ring only when no block of the ring
\* has a free slot, that is when the total occupancy is buffer_size *
\* num_blocks and has_available_capacity() is false, and then by one block.
C17_Original ==
    [][ /\ GrowthDecided =>
              /\ \A b \in Ring : tail_[b] - head_[b] = buffer_size_
              /\ occupied_approx = buffer_size_ * num_blocks
              /\ ~has_available_capacity
        /\ num_blocks_' # num_blocks_ => num_blocks_' = num_blocks_ + 1
      ]_vars

\* C17 (lazy growth), amended: an enqueue grows the ring only when it found
\* the tail block full and no idle block lies between tail_block_ and
\* front_block_; every block of the ring other than front_block_ is then
\* full, while the front block may have free slots (so that
\* has_available_capacity() may be true); and it grows by exactly one block.
C17_LazyGrowth ==
    [][ /\ GrowthDecided =>
              /\ Idle = {}
              /\ \A b \in Ring \ {front_block_} :
                    tail_[b] - head_[b] = buffer_size_
        /\ num_blocks_' # num_blocks_ =>
              /\ num_blocks_' = num_blocks_ + 1
              /\ Cardinality(Ring') = num_blocks_'
      ]_vars

\* With the consumer idle, the producer has decided to grow a ring of two
\* blocks whose front block has a free slot.
C17_Witness ==
    /\ ppc = "p_new_block"
    /\ cpc = "idle"
    /\ num_blocks = 2
    /\ front_block_ # p_tail
    /\ hasAvailableCapacity(front_block_)
    /\ has_available_capacity

\* The walk of occupied_approx() has left its loop.
WalkOver == mpc = "m_walk_done" \/ (mpc = "idle" /\ m_calls > 0)

\* No block is summed twice by a walk.
NoBlockTwice ==
    \A i, j \in DOMAIN m_visited : m_visited[i] = m_visited[j] => i = j

\* A finished walk has summed every block the ring had when it started.
NoBlockSkipped ==
    WalkOver => m_ring \subseteq {m_visited[i] : i \in DOMAIN m_visited}

\* C18 (occupied_approx() walks the full ring once): a call made by a
\* monitor while the producer and the consumer run visits every block of
\* the ring exactly once: no block is summed twice, and when the walk ends
\* no block of the ring it started on was skipped.
C18_WalksRingOnce == NoBlockTwice /\ NoBlockSkipped

\* The monitor's call of available_approx() has returned.
Returned == mpc = "idle" /\ m_calls > 0

\* C20 (available_approx() stays within range): a call made by a monitor at
\* any point of any interleaving of the producer and the consumer returns a
\* value from 0 to buffer_size * num_blocks: the subtraction
\* buffer_size_ * num_blocks_ - occupied_approx() never wraps around.
C20_AvailableInRange ==
    Returned => m_available \in 0 .. buffer_size_ * m_num_blocks

\* C19 (eventual delivery): if the consumer keeps calling dequeue, the event
\* of every enqueue that has returned is eventually returned by a successful
\* dequeue, in whichever block it is stored.
C19_EventualDelivery ==
    \A k \in Events :
        (enq_done >= k) ~> (Len(deq_seq) >= k /\ deq_seq[k] = enq_seq[k])

\* The consumer has caught up with every enqueue call made, the last event
\* taken out of a third block, which it reached by advancing front_block_
\* over drained blocks.
C19_Witness ==
    /\ cpc = "idle" /\ c_result = "true"
    /\ ppc = "idle" /\ enq_done >= 3
    /\ Len(deq_seq) = enq_done
    /\ front_block_ = 3
    /\ \A b \in Ring : empty(b)

=============================================================================
